---- MODULE Spec2Model ----
(***************************************************************************)
(* Model of the dependency-free ZIP reader (readFromZip,                   *)
(* extractEntryAsText) and the CSV parser (parseCsv, splitCsvLine) that    *)
(* scripts/build-static-gtfs.mjs and scripts/fetch-gtfsrt.mjs share.       *)
(*                                                                         *)
(* Bytes and characters are integers (a byte 0..255, a character its       *)
(* UTF-16 code unit); buffers and strings are sequences of them, so        *)
(* buf[i+1] is the source's buf[i].  A file is kept sparsely as            *)
(* pre ++ (gap zero bytes) ++ post, which lets archives longer than the    *)
(* 65557-byte EOCD window be read byte by byte.                            *)
(***************************************************************************)
EXTENDS Integers, Sequences, FiniteSets, TLC

VARIABLES
    archive,    \* how the input file was laid out (ground truth of the input)
    file,       \* the bytes on disk: [pre, gap, post]
    wantNames,  \* readFromZip's wantNames argument
    pc,         \* position inside readFromZip
    fdOpen,     \* the descriptor of fs.openSync is open
    size,       \* stat.size
    eocdOffset, \* eocdOffset
    cdBuf,      \* cdBuf
    entries,    \* entries
    p,          \* p, the walk's position in cdBuf
    pick,       \* pick
    k,          \* number of elements of pick the for-of loop has handled
    out,        \* out, the mapping being filled
    err,        \* the Error thrown out of readFromZip, NoError when none
    returned,   \* readFromZip has returned (its promise resolved)
    result,     \* the mapping it returned
    csvIn,      \* the argument of splitCsvLine / parseCsv
    csvPc,      \* which of the two has been applied to csvIn
    splitOut,   \* splitCsvLine's return value
    parseOut,   \* parseCsv's return value
    csvHeader,  \* the column names csvIn was written from, <<>> when none
    csvRecords  \* the records csvIn was written from: one value per column

zipVars == <<archive, file, wantNames, pc, fdOpen, size, eocdOffset, cdBuf,
             entries, p, pick, k, out, err, returned, result>>
csvVars == <<csvIn, csvPc, splitOut, parseOut, csvHeader, csvRecords>>
vars == <<archive, file, wantNames, pc, fdOpen, size, eocdOffset, cdBuf,
          entries, p, pick, k, out, err, returned, result,
          csvIn, csvPc, splitOut, parseOut, csvHeader, csvRecords>>

\* ------------------------------------------------------------------ bounds

\* Largest number of members of a generated archive.
MaxEntries == 2
\* Longest string over CsvAlphabet given to splitCsvLine and parseCsv.
MaxCsvLen == 5
\* Largest number of data lines of a generated CSV text.
MaxDataLines == 2
\* Largest number of columns of a record set written out as CSV.
MaxColumns == 2
\* Largest number of records of a record set written out as CSV.
MaxRecords == 2

\* --------------------------------------------------------- program constants

EOCD_SIG == 101010256     \* 0x06054b50
CEN_SIG == 33639248       \* 0x02014b50
LOCAL_SIG == 67324752     \* 0x04034b50
maxComment == 65535       \* 0xffff
EocdFixedLen == 22
CenFixedLen == 46
LocalFixedLen == 30
MethodStored == 0
MethodDeflate == 8

\* ------------------------------------------------------------ byte helpers

Min(a, b) == IF a < b THEN a ELSE b

SetMax(S) == CHOOSE x \in S : \A y \in S : y <= x

Zeros(n) == [i \in 1..n |-> 0]

\* Little-endian encodings, used to lay the input archives out.
LE16(n) == <<n % 256, (n \div 256) % 256>>
LE32(n) == <<n % 256, (n \div 256) % 256, (n \div 65536) % 256, (n \div 16777216) % 256>>

\* buf.readUInt16LE(off)
ReadUInt16LE(buf, off) == buf[off + 1] + 256 * buf[off + 2]

\* buf.readUInt32LE(off), as a number.  Used for the size and offset fields.
ReadUInt32LE(buf, off) ==
    buf[off + 1] + 256 * buf[off + 2] + 65536 * buf[off + 3] + 16777216 * buf[off + 4]

\* buf.readUInt32LE(off) === sig.  The decoding is injective, so the comparison
\* is that of the four bytes with sig's little-endian bytes.
UInt32LEIs(buf, off, sig) ==
    <<buf[off + 1], buf[off + 2], buf[off + 3], buf[off + 4]>> = LE32(sig)

\* buf.slice(from, to): both ends clamped to the buffer.
Slice(buf, from, to) ==
    LET t == Min(to, Len(buf))
    IN  IF from >= t THEN <<>> ELSE [i \in 1..(t - from) |-> buf[from + i]]

\* ------------------------------------------------------------------- files

FileSize(f) == Len(f.pre) + f.gap + Len(f.post)

\* The byte at offset pos (0-based) of the file, pos < FileSize(f).
ByteAt(f, pos) ==
    IF pos < Len(f.pre) THEN f.pre[pos + 1]
    ELSE IF pos < Len(f.pre) + f.gap THEN 0
    ELSE f.post[pos - Len(f.pre) - f.gap + 1]

\* fs.readSync(fd, buf, 0, len, pos) into a fresh Buffer.alloc(len): the bytes
\* of the file from pos on, and zeros where the read runs past the end of file.
ReadSync(f, len, pos) ==
    [i \in 1..len |-> IF pos + i - 1 < FileSize(f) THEN ByteAt(f, pos + i - 1) ELSE 0]

\* readUInt32LE(fd, pos): four bytes read at pos, decoded.
FdReadUInt32LE(f, pos) == ReadUInt32LE(ReadSync(f, 4, pos), 0)

\* -------------------------------------------------------------------- text

ReplacementChar == 65533  \* U+FFFD

\* buf.toString("utf8") on the bytes the inputs use: an ASCII byte is its own
\* character, and a byte that can never occur in UTF-8 (0xF8..0xFF) decodes to
\* one U+FFFD.  Multi-byte sequences (0x80..0xF7) are not modelled and do not
\* occur in the generated archives.
Utf8ToString(bytes) ==
    [i \in 1..Len(bytes) |-> IF bytes[i] < 128 THEN bytes[i] ELSE ReplacementChar]

\* String.prototype.toLowerCase on ASCII letters.
ToLowerCase(s) ==
    [i \in 1..Len(s) |-> IF s[i] >= 65 /\ s[i] <= 90 THEN s[i] + 32 ELSE s[i]]

Slash == 47

\* path.basename (POSIX): trailing slashes are dropped, and what follows the
\* last remaining slash is returned.
RECURSIVE StripTrailingSlashes(_)
StripTrailingSlashes(s) ==
    IF Len(s) > 0 /\ s[Len(s)] = Slash
    THEN StripTrailingSlashes(SubSeq(s, 1, Len(s) - 1))
    ELSE s

Basename(name) ==
    LET s == StripTrailingSlashes(name)
        cuts == {i \in 1..Len(s) : s[i] = Slash}
    IN  IF cuts = {} THEN s ELSE SubSeq(s, SetMax(cuts) + 1, Len(s))

\* ----------------------------------------------------------------- inflate

\* zlib.inflateRawSync on streams made of stored blocks (BTYPE 00) and on the
\* reserved block type (BTYPE 11), which is what the generated archives hold.
\* A stored block is one header byte (bit 0 BFINAL, bits 1-2 BTYPE), LEN and
\* NLEN = ~LEN as 16-bit little-endian numbers, then LEN literal bytes.
\* Huffman blocks (BTYPE 01, 10) are outside the model: kind "unmodelled".
RECURSIVE InflateRawSync(_)
InflateRawSync(data) ==
    IF Len(data) = 0 THEN [ok |-> FALSE, raw |-> <<>>, why |-> "unexpected end of file"]
    ELSE LET bfinal == data[1] % 2
             btype == (data[1] \div 2) % 4
         IN  IF btype = 3 THEN [ok |-> FALSE, raw |-> <<>>, why |-> "invalid block type"]
             ELSE IF btype # 0 THEN [ok |-> FALSE, raw |-> <<>>, why |-> "unmodelled"]
             ELSE IF Len(data) < 5
                 THEN [ok |-> FALSE, raw |-> <<>>, why |-> "unexpected end of file"]
             ELSE LET len == ReadUInt16LE(data, 1)
                      nlen == ReadUInt16LE(data, 3)
                  IN  IF nlen # 65535 - len
                      THEN [ok |-> FALSE, raw |-> <<>>, why |-> "invalid stored block lengths"]
                      ELSE IF Len(data) < 5 + len
                      THEN [ok |-> FALSE, raw |-> <<>>, why |-> "unexpected end of file"]
                      ELSE IF bfinal = 1
                      THEN [ok |-> TRUE, raw |-> SubSeq(data, 6, 5 + len), why |-> ""]
                      ELSE LET rest == InflateRawSync(SubSeq(data, 6 + len, Len(data)))
                           IN  IF rest.ok
                               THEN [ok |-> TRUE, raw |-> SubSeq(data, 6, 5 + len) \o rest.raw,
                                     why |-> ""]
                               ELSE rest

\* ------------------------------------------------------------- readFromZip

NoError == [kind |-> "none", code |-> 0]
EocdNotFound == [kind |-> "ZIP: EOCD not found", code |-> 0]
LocalHeaderBroken == [kind |-> "ZIP: local header broken", code |-> 0]
UnsupportedMethod(m) == [kind |-> "unsupported compression method", code |-> m]
InflateFailed == [kind |-> "zlib inflate error", code |-> 0]

\* readTail = Math.min(size, 22 + maxComment)
ReadTailLen(sz) == Min(sz, EocdFixedLen + maxComment)

\* tail.readUInt32LE(i) === EOCD_SIG, tail being the last ReadTailLen bytes.
TailHasSigAt(f, i) ==
    LET base == FileSize(f) - ReadTailLen(FileSize(f)) + i
        sig == LE32(EOCD_SIG)
    IN  /\ ByteAt(f, base) = sig[1]
        /\ ByteAt(f, base + 1) = sig[2]
        /\ ByteAt(f, base + 2) = sig[3]
        /\ ByteAt(f, base + 3) = sig[4]

\* Mutant of ScanStart: the scan starts at the last position that can hold four
\* bytes instead of the last that can hold an EOCD record.
ScanStartLastWord(f) == ReadTailLen(FileSize(f)) - 4

\* for (let i = readTail - 22; i >= 0; i--) if (...) { eocdOffset = ...; break; }
\* The loop stops at the first hit coming down from readTail - 22, which is the
\* greatest i of the range that holds the signature; -1 when there is none.
ScanStart(f) == ReadTailLen(FileSize(f)) - EocdFixedLen

ScanForEocd(f) ==
    LET hits == {i \in 0..ScanStart(f) : TailHasSigAt(f, i)}
    IN  IF hits = {} THEN -1
        ELSE FileSize(f) - ReadTailLen(FileSize(f)) + SetMax(hits)

\* One central-directory record at position q of buf.
CenEntry(buf, q) ==
    [name |-> Utf8ToString(Slice(buf, q + CenFixedLen,
                                 q + CenFixedLen + ReadUInt16LE(buf, q + 28))),
     localHdrOff |-> ReadUInt32LE(buf, q + 42),
     compSize |-> ReadUInt32LE(buf, q + 20),
     uncompSize |-> ReadUInt32LE(buf, q + 24),
     method |-> ReadUInt16LE(buf, q + 10)]

\* p += 46 + nameLen + extraLen + commLen
CenNext(buf, q) ==
    q + CenFixedLen + ReadUInt16LE(buf, q + 28) + ReadUInt16LE(buf, q + 30)
      + ReadUInt16LE(buf, q + 32)

\* while (p + 46 <= cdBuf.length) { if (cdBuf.readUInt32LE(p) !== CEN_SIG) break;
WalkContinues(buf, q) == q + CenFixedLen <= Len(buf) /\ UInt32LEIs(buf, q, CEN_SIG)

\* Mutant of Wanted: the requested names are not lower-cased.
WantedExactRequest(e, want) ==
    \E i \in 1..Len(want) : want[i] = ToLowerCase(Basename(e.name))

\* wantSet.has(path.basename(e.name).toLowerCase())
Wanted(e, want) ==
    \E i \in 1..Len(want) : ToLowerCase(want[i]) = ToLowerCase(Basename(e.name))

\* entries.filter(...)
Filter(es, want) == SelectSeq(es, LAMBDA e : Wanted(e, want))

\* Mutant of DataStart: the name length of the central directory is used and
\* the local extra field forgotten.
DataStartFromCentralName(f, e) == e.localHdrOff + LocalFixedLen + Len(e.name)

\* dataStart = e.localHdrOff + 30 + nameLen + extraLen, from the local header
DataStart(f, e) ==
    LET header == ReadSync(f, LocalFixedLen, e.localHdrOff)
    IN  e.localHdrOff + LocalFixedLen + ReadUInt16LE(header, 26) + ReadUInt16LE(header, 28)

\* Mutant of extractEntryAsText: the local header signature is not verified.
extractEntryUnverified(f, e) ==
    LET data == ReadSync(f, e.compSize, DataStart(f, e))
    IN  IF e.method = MethodStored
        THEN [err |-> NoError, text |-> Utf8ToString(data)]
        ELSE IF e.method = MethodDeflate
        THEN LET inf == InflateRawSync(data)
             IN  IF inf.ok
                 THEN [err |-> NoError, text |-> Utf8ToString(inf.raw)]
                 ELSE [err |-> InflateFailed, text |-> <<>>]
        ELSE [err |-> UnsupportedMethod(e.method), text |-> <<>>]

\* extractEntryAsText(fd, e): [err, text], err = NoError when it returns text.
extractEntryAsText(f, e) ==
    LET header == ReadSync(f, LocalFixedLen, e.localHdrOff)
    IN  IF ~UInt32LEIs(header, 0, LOCAL_SIG)
        THEN [err |-> LocalHeaderBroken, text |-> <<>>]
        ELSE LET data == ReadSync(f, e.compSize, DataStart(f, e))
             IN  IF e.method = MethodStored
                 THEN [err |-> NoError, text |-> Utf8ToString(data)]
                 ELSE IF e.method = MethodDeflate
                 THEN LET inf == InflateRawSync(data)
                      IN  IF inf.ok
                          THEN [err |-> NoError, text |-> Utf8ToString(inf.raw)]
                          ELSE [err |-> InflateFailed, text |-> <<>>]
                 ELSE [err |-> UnsupportedMethod(e.method), text |-> <<>>]

\* out[key] = text on the plain object out.
SetKey(obj, key, text) == (key :> text) @@ obj

EmptyObject == <<>>

\* A thrown error leaves readFromZip at once: nothing after the throw runs.
Throw(e) ==
    /\ pc' = "failed"
    /\ err' = e

\* const fd = fs.openSync(zipFile, "r"); const size = fs.fstatSync(fd).size;
Open ==
    /\ pc = "start"
    /\ fdOpen' = TRUE
    /\ size' = FileSize(file)
    /\ pc' = "opened"
    /\ UNCHANGED <<archive, file, wantNames, eocdOffset, cdBuf, entries, p, pick, k,
                   out, err, returned, result>>
    /\ UNCHANGED csvVars

\* The tail is read and scanned; if (eocdOffset < 0) throw.
LocateEocd ==
    /\ pc = "opened"
    /\ eocdOffset' = ScanForEocd(file)
    /\ IF eocdOffset' < 0
       THEN Throw(EocdNotFound)
       ELSE pc' = "located" /\ err' = err
    /\ UNCHANGED <<archive, file, wantNames, fdOpen, size, cdBuf, entries, p, pick, k,
                   out, returned, result>>
    /\ UNCHANGED csvVars

\* cdSize and cdOffset are read from the EOCD and the central directory loaded.
ReadCentralDirectory ==
    /\ pc = "located"
    /\ cdBuf' = ReadSync(file, FdReadUInt32LE(file, eocdOffset + 12),
                         FdReadUInt32LE(file, eocdOffset + 16))
    /\ entries' = <<>>
    /\ p' = 0
    /\ pc' = "walking"
    /\ UNCHANGED <<archive, file, wantNames, fdOpen, size, eocdOffset, pick, k,
                   out, err, returned, result>>
    /\ UNCHANGED csvVars

\* One turn of the while loop that parses a record and advances p.
WalkStep ==
    /\ pc = "walking"
    /\ WalkContinues(cdBuf, p)
    /\ entries' = Append(entries, CenEntry(cdBuf, p))
    /\ p' = CenNext(cdBuf, p)
    /\ UNCHANGED <<archive, file, wantNames, pc, fdOpen, size, eocdOffset, cdBuf, pick, k,
                   out, err, returned, result>>
    /\ UNCHANGED csvVars

\* The loop ends (end of buffer, or break on a signature mismatch); wantSet and
\* pick are computed and out = {}.
WalkEnd ==
    /\ pc = "walking"
    /\ ~WalkContinues(cdBuf, p)
    /\ pick' = Filter(entries, wantNames)
    /\ k' = 0
    /\ out' = EmptyObject
    /\ pc' = "extracting"
    /\ UNCHANGED <<archive, file, wantNames, fdOpen, size, eocdOffset, cdBuf, entries, p,
                   err, returned, result>>
    /\ UNCHANGED csvVars

\* One turn of for (const e of pick): out[basename] = await extractEntryAsText.
ExtractStep ==
    /\ pc = "extracting"
    /\ k < Len(pick)
    /\ LET e == pick[k + 1]
           r == extractEntryAsText(file, e)
       IN  IF r.err # NoError
           THEN Throw(r.err) /\ UNCHANGED <<k, out>>
           ELSE /\ out' = SetKey(out, Basename(e.name), r.text)
                /\ k' = k + 1
                /\ UNCHANGED <<pc, err>>
    /\ UNCHANGED <<archive, file, wantNames, fdOpen, size, eocdOffset, cdBuf, entries, p,
                   pick, returned, result>>
    /\ UNCHANGED csvVars

\* fs.closeSync(fd); return out;
CloseAndReturn ==
    /\ pc = "extracting"
    /\ k = Len(pick)
    /\ fdOpen' = FALSE
    /\ returned' = TRUE
    /\ result' = out
    /\ pc' = "done"
    /\ UNCHANGED <<archive, file, wantNames, size, eocdOffset, cdBuf, entries, p, pick, k,
                   out, err>>
    /\ UNCHANGED csvVars

\* ---------------------------------------------------------- input archives
\* The files readFromZip is run on are laid out from member descriptors
\*   [dir, base, lbase, name, method, content, lnamePad, lextra, cextra, ccomm,
\*    localSigOk, streamOk]
\* following the layout the reader decodes (all integers little-endian).

\* A raw deflate stream holding c as one final stored block.
StoredBlock(c) == <<1>> \o LE16(Len(c)) \o LE16(65535 - Len(c)) \o c

\* The bytes of the member as they lie in the archive.
MemberData(m) ==
    IF m.method = MethodDeflate
    THEN IF m.streamOk THEN StoredBlock(m.content) ELSE <<7>> \o m.content
    ELSE m.content

\* The name in the local header: the central name, lnamePad characters longer.
LocalName(m) == m.name \o [i \in 1..m.lnamePad |-> 95]

\* Local file header (30 bytes), local name, local extra field, data.
LocalRecord(m) ==
    LE32(IF m.localSigOk THEN LOCAL_SIG ELSE 0) \o Zeros(4) \o LE16(m.method) \o Zeros(8)
    \o LE32(Len(MemberData(m))) \o LE32(Len(m.content))
    \o LE16(Len(LocalName(m))) \o LE16(m.lextra)
    \o LocalName(m) \o [i \in 1..m.lextra |-> 1] \o MemberData(m)

\* Central-directory record (46 bytes), name, extra field, comment.
CentralRecord(m, off, sigOk) ==
    LE32(IF sigOk THEN CEN_SIG ELSE 0) \o Zeros(6) \o LE16(m.method) \o Zeros(8)
    \o LE32(Len(MemberData(m))) \o LE32(Len(m.content))
    \o LE16(Len(m.name)) \o LE16(m.cextra) \o LE16(m.ccomm) \o Zeros(8) \o LE32(off)
    \o m.name \o [i \in 1..m.cextra |-> 2] \o [i \in 1..m.ccomm |-> 3]

\* End-of-central-directory record (22 bytes), without its comment.
EocdRecord(n, cdSize, cdOffset, commLen) ==
    LE32(EOCD_SIG) \o Zeros(4) \o LE16(n) \o LE16(n) \o LE32(cdSize) \o LE32(cdOffset)
    \o LE16(commLen)

RECURSIVE Locals(_, _)
Locals(ms, n) == IF n = 0 THEN <<>> ELSE Locals(ms, n - 1) \o LocalRecord(ms[n])

\* Offset of the local header of member i.
LocalOffset(ms, i) == Len(Locals(ms, i - 1))

RECURSIVE Centrals(_, _, _)
Centrals(ms, n, corruptAt) ==
    IF n = 0 THEN <<>>
    ELSE Centrals(ms, n - 1, corruptAt)
         \o CentralRecord(ms[n], LocalOffset(ms, n), n # corruptAt)

\* Length of the archive comment of each shape.
CommentLen(shape) ==
    CASE shape = "bigComment" -> maxComment
      [] shape = "sigInShortComment" -> 4
      [] shape = "decoyComment" -> 22
      [] OTHER -> 0

\* Everything up to and including the fixed part of the EOCD record.
ZipBody(a) ==
    LET ms == a.members
        loc == Locals(ms, Len(ms))
        cd == Centrals(ms, Len(ms), a.cdCorruptAt)
    IN  loc \o cd \o EocdRecord(Len(ms), Len(cd), Len(loc), CommentLen(a.shape))

\* Offset of the archive's EOCD record.
TrueEocdOffset(a) == Len(ZipBody(a)) - EocdFixedLen

\* The file of an archive descriptor.
\*   plain              no comment
\*   bigComment         a comment of 65535 zero bytes
\*   sigInShortComment  a 4-byte comment that is the EOCD signature
\*   decoyComment       a 22-byte comment that starts with the EOCD signature
\*   trailing           65536 zero bytes appended after the archive
\*   cut0, cut10, cut21 the archive truncated to its first 0, 10, 21 bytes
BuildFile(a) ==
    LET body == ZipBody(a)
    IN  CASE a.shape = "plain" -> [pre |-> body, gap |-> 0, post |-> <<>>]
          [] a.shape = "bigComment" -> [pre |-> body, gap |-> maxComment, post |-> <<>>]
          [] a.shape = "sigInShortComment" ->
                [pre |-> body \o LE32(EOCD_SIG), gap |-> 0, post |-> <<>>]
          [] a.shape = "decoyComment" ->
                [pre |-> body \o LE32(EOCD_SIG) \o Zeros(18), gap |-> 0, post |-> <<>>]
          [] a.shape = "trailing" -> [pre |-> body, gap |-> maxComment + 1, post |-> <<>>]
          [] a.shape = "cut0" -> [pre |-> <<>>, gap |-> 0, post |-> <<>>]
          [] a.shape = "cut10" ->
                [pre |-> SubSeq(body, 1, Min(10, Len(body))), gap |-> 0, post |-> <<>>]
          [] a.shape = "cut21" ->
                [pre |-> SubSeq(body, 1, Min(21, Len(body))), gap |-> 0, post |-> <<>>]

Member(dir, base, lbase, method, content, lnamePad, lextra, cextra, ccomm, sigOk, strOk) ==
    [dir |-> dir, base |-> base, lbase |-> lbase, name |-> dir \o base, method |-> method,
     content |-> content, lnamePad |-> lnamePad, lextra |-> lextra, cextra |-> cextra,
     ccomm |-> ccomm, localSigOk |-> sigOk, streamOk |-> strOk]

\* The member's name is dir \o base, and lbase is base in lower case.
\* "a" stored, "d/a" stored, "A" deflated, "B" with method 12 (bzip2),
\* "e/b" stored behind a broken local header, "b" deflated with a broken
\* stream, "f/b" stored with a byte that is not UTF-8.
MemberPool ==
    { Member(<<>>, <<97>>, <<97>>, 0, <<104, 105>>, 0, 2, 0, 0, TRUE, TRUE),
      Member(<<100, 47>>, <<97>>, <<97>>, 0, <<121, 111>>, 1, 0, 1, 1, TRUE, TRUE),
      Member(<<>>, <<65>>, <<97>>, 8, <<111, 107>>, 0, 0, 0, 0, TRUE, TRUE),
      Member(<<>>, <<66>>, <<98>>, 12, <<122>>, 0, 0, 0, 0, TRUE, TRUE),
      Member(<<101, 47>>, <<98>>, <<98>>, 0, <<113>>, 0, 0, 0, 0, FALSE, TRUE),
      Member(<<>>, <<98>>, <<98>>, 8, <<119>>, 0, 1, 0, 0, TRUE, FALSE),
      Member(<<102, 47>>, <<98>>, <<98>>, 0, <<255, 33>>, 0, 1, 2, 0, TRUE, TRUE) }

MemberSeqs == UNION {[1..n -> MemberPool] : n \in 0..MaxEntries}

Shapes == {"bigComment", "sigInShortComment", "decoyComment", "trailing",
           "cut0", "cut10", "cut21"}

\* The archives the shapes are applied to: the empty one and a one-member one.
ShapeBases ==
    {<<>>, <<Member(<<>>, <<97>>, <<97>>, 0, <<104, 105>>, 0, 2, 0, 0, TRUE, TRUE)>>}

Archives ==
    UNION {{[members |-> ms, cdCorruptAt |-> j, shape |-> "plain"] : j \in 0..Len(ms)}
           : ms \in MemberSeqs}
    \cup {[members |-> ms, cdCorruptAt |-> 0, shape |-> s] : ms \in ShapeBases, s \in Shapes}

\* wantNames: ["a"], ["A", "b"], ["c"], ["b"]
WantLists == {<<<<97>>>>, <<<<65>>, <<98>>>>, <<<<99>>>>, <<<<98>>>>}

\* ---------------------------------------------------------- specification

CsvIdle ==
    /\ csvIn = <<>>
    /\ csvPc = "idle"
    /\ splitOut = <<>>
    /\ parseOut = <<>>
    /\ csvHeader = <<>>
    /\ csvRecords = <<>>

Init ==
    /\ archive \in Archives
    /\ file = BuildFile(archive)
    /\ wantNames \in WantLists
    /\ pc = "start"
    /\ fdOpen = FALSE
    /\ size = 0
    /\ eocdOffset = -1
    /\ cdBuf = <<>>
    /\ entries = <<>>
    /\ p = 0
    /\ pick = <<>>
    /\ k = 0
    /\ out = EmptyObject
    /\ err = NoError
    /\ returned = FALSE
    /\ result = EmptyObject
    /\ CsvIdle

Next ==
    \/ Open
    \/ LocateEocd
    \/ ReadCentralDirectory
    \/ WalkStep
    \/ WalkEnd
    \/ ExtractStep
    \/ CloseAndReturn

Spec == Init /\ [][Next]_vars

\* --------------------------------------------------------------------- CSV

COMMA == 44     \* ","
DQUOTE == 34    \* '"'
LF == 10        \* "\n"
CR == 13        \* "\r"
BOM == 65279    \* U+FEFF

\* The for loop of splitCsvLine from index i (1-based) on, cur, inQ and out
\* being what the turns before left.
RECURSIVE SplitLoop(_, _, _, _, _)
SplitLoop(line, i, cur, inQ, acc) ==
    IF i > Len(line) THEN Append(acc, cur)
    ELSE IF line[i] = DQUOTE
         THEN IF inQ /\ i + 1 <= Len(line) /\ line[i + 1] = DQUOTE
              THEN SplitLoop(line, i + 2, Append(cur, DQUOTE), inQ, acc)
              ELSE SplitLoop(line, i + 1, cur, ~inQ, acc)
    ELSE IF line[i] = COMMA /\ ~inQ
         THEN SplitLoop(line, i + 1, <<>>, inQ, Append(acc, cur))
    ELSE SplitLoop(line, i + 1, Append(cur, line[i]), inQ, acc)

\* Mutant of splitCsvLine: a doubled quote is not an escape, every quote toggles.
RECURSIVE SplitLoopNoEscape(_, _, _, _, _)
SplitLoopNoEscape(line, i, cur, inQ, acc) ==
    IF i > Len(line) THEN Append(acc, cur)
    ELSE IF line[i] = DQUOTE THEN SplitLoopNoEscape(line, i + 1, cur, ~inQ, acc)
    ELSE IF line[i] = COMMA /\ ~inQ
         THEN SplitLoopNoEscape(line, i + 1, <<>>, inQ, Append(acc, cur))
    ELSE SplitLoopNoEscape(line, i + 1, Append(cur, line[i]), inQ, acc)

splitCsvLineNoEscape(line) == SplitLoopNoEscape(line, 1, <<>>, FALSE, <<>>)

\* splitCsvLine(line)
splitCsvLine(line) == SplitLoop(line, 1, <<>>, FALSE, <<>>)

\* text.replace(/\uFEFF/, ""): the first U+FEFF of the text, wherever it is,
\* is removed (the pattern is neither anchored nor global).
ReplaceFirstBom(text) ==
    LET at == {i \in 1..Len(text) : text[i] = BOM}
    IN  IF at = {} THEN text
        ELSE LET i == CHOOSE x \in at : \A y \in at : x <= y
             IN  SubSeq(text, 1, i - 1) \o SubSeq(text, i + 1, Len(text))

\* One trailing "\r" belongs to the separator /\r?\n/ that follows it.
DropCr(cur) ==
    IF Len(cur) > 0 /\ cur[Len(cur)] = CR THEN SubSeq(cur, 1, Len(cur) - 1) ELSE cur

\* text.split(/\r?\n/)
RECURSIVE SplitLinesLoop(_, _, _, _)
SplitLinesLoop(text, i, cur, acc) ==
    IF i > Len(text) THEN Append(acc, cur)
    ELSE IF text[i] = LF
         THEN SplitLinesLoop(text, i + 1, <<>>, Append(acc, DropCr(cur)))
    ELSE SplitLinesLoop(text, i + 1, Append(cur, text[i]), acc)

SplitLines(text) == SplitLinesLoop(text, 1, <<>>, <<>>)

\* const lines = text.replace(/\uFEFF/, "").split(/\r?\n/).filter(l => l.length > 0)
CsvLines(text) == SelectSeq(SplitLines(ReplaceFirstBom(text)), LAMBDA l : Len(l) > 0)

\* A property key that is an array index ("0", "1", "12", ...; below 2^32 - 1):
\* such keys are enumerated first, in numeric order.  Keys of ten characters
\* and more do not occur in the inputs and are taken as ordinary strings.
IsArrayIndex(key) ==
    /\ Len(key) >= 1
    /\ Len(key) <= 9
    /\ \A i \in 1..Len(key) : key[i] >= 48 /\ key[i] <= 57
    /\ (Len(key) > 1 => key[1] # 48)

RECURSIVE IndexValue(_)
IndexValue(key) ==
    IF Len(key) = 0 THEN 0
    ELSE 10 * IndexValue(SubSeq(key, 1, Len(key) - 1)) + (key[Len(key)] - 48)

\* "__proto__"
ProtoKey == <<95, 95, 112, 114, 111, 116, 111, 95, 95>>

\* row[h] = v on an object created by {}.  The object is the sequence of its
\* own <<key, value>> properties in enumeration order: array-index keys in
\* numeric order, then the other keys in the order they were created.
\* "__proto__" is the accessor inherited from Object.prototype, and setting it
\* to a string creates no property.
SetProp(obj, h, v) ==
    IF h = ProtoKey THEN obj
    ELSE IF \E i \in 1..Len(obj) : obj[i][1] = h
    THEN [i \in 1..Len(obj) |-> IF obj[i][1] = h THEN <<h, v>> ELSE obj[i]]
    ELSE IF IsArrayIndex(h)
    THEN LET before == {i \in 1..Len(obj) :
                          IsArrayIndex(obj[i][1]) /\ IndexValue(obj[i][1]) < IndexValue(h)}
             n == Cardinality(before)
         IN  SubSeq(obj, 1, n) \o <<<<h, v>>>> \o SubSeq(obj, n + 1, Len(obj))
    ELSE Append(obj, <<h, v>>)

\* header.forEach((h, j) => { row[h] = cols[j] ?? ""; }) for the first n names
RECURSIVE MakeRow(_, _, _)
MakeRow(header, cols, n) ==
    IF n = 0 THEN <<>>
    ELSE SetProp(MakeRow(header, cols, n - 1), header[n],
                 IF n <= Len(cols) THEN cols[n] ELSE <<>>)

\* The for loop of parseCsv from lines[i] (1-based) on.
RECURSIVE ParseLoop(_, _, _, _)
ParseLoop(lines, header, i, acc) ==
    IF i > Len(lines) THEN acc
    ELSE LET cols == splitCsvLine(lines[i])
         IN  IF Len(cols) = 1 /\ cols[1] = <<>>
             THEN ParseLoop(lines, header, i + 1, acc)
             ELSE ParseLoop(lines, header, i + 1,
                            Append(acc, MakeRow(header, cols, Len(header))))

\* Mutant of parseCsv: the loop starts at lines[2], so the first data line is
\* taken for part of the header block and gives no record.
parseCsvFromSecondDataLine(text) ==
    LET lines == CsvLines(text)
    IN  IF Len(lines) = 0 THEN <<>>
        ELSE ParseLoop(lines, splitCsvLine(lines[1]), 3, <<>>)

\* parseCsv(text)
parseCsv(text) ==
    LET lines == CsvLines(text)
    IN  IF Len(lines) = 0 THEN <<>>
        ELSE ParseLoop(lines, splitCsvLine(lines[1]), 2, <<>>)

\* splitCsvLine applied to the input.
CallSplitCsvLine ==
    /\ csvPc = "ready"
    /\ splitOut' = splitCsvLine(csvIn)
    /\ csvPc' = "split"
    /\ UNCHANGED <<csvIn, parseOut, csvHeader, csvRecords>>
    /\ UNCHANGED zipVars

\* parseCsv applied to the input.
CallParseCsv ==
    /\ csvPc = "ready"
    /\ parseOut' = parseCsv(csvIn)
    /\ csvPc' = "parsed"
    /\ UNCHANGED <<csvIn, splitOut, csvHeader, csvRecords>>
    /\ UNCHANGED zipVars

\* -------------------------------------------------------------- CSV inputs

\* a , " \n 1
CsvAlphabet == {97, COMMA, DQUOTE, LF, 49}

CsvStrings == UNION {[1..n -> CsvAlphabet] : n \in 0..MaxCsvLen}

\* a,"b,c",d   and   a,"b""c",d
QuotedExample == <<97, 44, 34, 98, 44, 99, 34, 44, 100>>
EscapedExample == <<97, 44, 34, 98, 34, 34, 99, 34, 44, 100>>

\* a,b,c   2,1   __proto__,a   a   "a,b",c
CsvHeaders ==
    { <<97, 44, 98, 44, 99>>,
      <<50, 44, 49>>,
      ProtoKey \o <<44, 97>>,
      <<97>>,
      <<34, 97, 44, 98, 34, 44, 99>> }

\* x,y   x,y,z,w   ""   x   ,   U+FEFF   "x,y",z
CsvDataLines ==
    { <<120, 44, 121>>,
      <<120, 44, 121, 44, 122, 44, 119>>,
      <<34, 34>>,
      <<120>>,
      <<44>>,
      <<BOM>>,
      <<34, 120, 44, 121, 34, 44, 122>> }

\* "\n", "\r\n" and a blank line "\n\n"
CsvSeparators == {<<LF>>, <<CR, LF>>, <<LF, LF>>}

RECURSIVE JoinLines(_, _, _)
JoinLines(ls, sep, n) == IF n = 0 THEN <<>> ELSE JoinLines(ls, sep, n - 1) \o sep \o ls[n]

\* A header line and up to MaxDataLines data lines, with or without a leading
\* byte-order mark.
CsvTexts ==
    {lead \o h \o JoinLines(ls, sep, Len(ls)) :
        lead \in {<<>>, <<BOM>>},
        h \in CsvHeaders,
        ls \in UNION {[1..n -> CsvDataLines] : n \in 0..MaxDataLines},
        sep \in CsvSeparators}

CsvInputs == CsvStrings \cup CsvTexts \cup {QuotedExample, EscapedExample}

ZipIdle ==
    /\ archive = [members |-> <<>>, cdCorruptAt |-> 0, shape |-> "plain"]
    /\ file = [pre |-> <<>>, gap |-> 0, post |-> <<>>]
    /\ wantNames = <<>>
    /\ pc = "idle"
    /\ fdOpen = FALSE
    /\ size = 0
    /\ eocdOffset = -1
    /\ cdBuf = <<>>
    /\ entries = <<>>
    /\ p = 0
    /\ pick = <<>>
    /\ k = 0
    /\ out = <<>>
    /\ err = [kind |-> "none", code |-> 0]
    /\ returned = FALSE
    /\ result = <<>>

InitCsv ==
    /\ csvIn \in CsvInputs
    /\ csvPc = "ready"
    /\ splitOut = <<>>
    /\ parseOut = <<>>
    /\ csvHeader = <<>>
    /\ csvRecords = <<>>
    /\ ZipIdle

NextCsv ==
    \/ CallSplitCsvLine
    \/ CallParseCsv

SpecCsv == InitCsv /\ [][NextCsv]_vars

\* ------------------------------------------------- record sets written as CSV

\* Column names without comma, double quote or line break: a  b  1  __proto__
ColumnNames == {<<97>>, <<98>>, <<49>>, ProtoKey}

\* Values without comma, double quote or line break: the empty string and x
ColumnValues == {<<>>, <<120>>}

\* Headers of 1..MaxColumns distinct column names.
RecordHeaders ==
    {h \in UNION {[1..n -> ColumnNames] : n \in 1..MaxColumns} :
        \A i, j \in 1..Len(h) : h[i] = h[j] => i = j}

\* Sequences of up to MaxRecords records of n values each.
RecordSeqs(n) == UNION {[1..m -> [1..n -> ColumnValues]] : m \in 0..MaxRecords}

\* The fields joined by commas.
RECURSIVE JoinFields(_, _)
JoinFields(fields, n) ==
    IF n = 0 THEN <<>>
    ELSE IF n = 1 THEN fields[1]
    ELSE JoinFields(fields, n - 1) \o <<COMMA>> \o fields[n]

\* The comma-joined header line followed by one comma-joined line per record,
\* each behind a "\n".
SerializeAsCsv(header, records) ==
    JoinFields(header, Len(header))
        \o JoinLines([r \in 1..Len(records) |-> JoinFields(records[r], Len(records[r]))],
                     <<LF>>, Len(records))

\* parseCsv is given the text a record set was written to.
InitRoundTrip ==
    /\ csvHeader \in RecordHeaders
    /\ csvRecords \in RecordSeqs(Len(csvHeader))
    /\ csvIn = SerializeAsCsv(csvHeader, csvRecords)
    /\ csvPc = "ready"
    /\ splitOut = <<>>
    /\ parseOut = <<>>
    /\ ZipIdle

SpecRoundTrip == InitRoundTrip /\ [][NextCsv]_vars

\* ------------------------------------------------- ground truth of the input
\* What the archive descriptor says, independently of what the reader decodes.

\* The EOCD record and the central directory are where a ZIP reader must find
\* them: no record is corrupted and the scan cannot stop on a decoy.
Intact(a) ==
    /\ a.cdCorruptAt = 0
    /\ a.shape \in {"plain", "bigComment", "sigInShortComment"}

\* A well-formed ZIP file: every structure is in place and every stream valid.
\* A comment and a member with a method this reader does not know are allowed.
WellFormed(a) ==
    /\ a.cdCorruptAt = 0
    /\ a.shape \in {"plain", "bigComment", "sigInShortComment", "decoyComment"}
    /\ \A i \in 1..Len(a.members) : a.members[i].localSigOk /\ a.members[i].streamOk

\* The comment holds an EOCD signature 22 bytes or more before the end of
\* file, that is at an offset the scan visits before the EOCD record's.
HasDecoy(a) == a.shape = "decoyComment"

\* The requested names in lower case (only "A" has an upper-case letter).
WantLower(w) == IF w = <<65>> THEN <<97>> ELSE w

\* Member m is requested: its basename equals a requested name, ignoring case.
Requested(m, want) == \E i \in 1..Len(want) : WantLower(want[i]) = m.lbase

\* The error extracting member m ends in, NoError when it can be extracted.
FailureOf(m) ==
    IF ~m.localSigOk THEN LocalHeaderBroken
    ELSE IF m.method = 0 THEN NoError
    ELSE IF m.method = 8 THEN (IF m.streamOk THEN NoError ELSE InflateFailed)
    ELSE UnsupportedMethod(m.method)

\* Bad method or bad local header, the two defects of claim C3.
BadMember(m) == m.method \notin {0, 8} \/ ~m.localSigOk

\* Indices of the requested members, and of those among them that fail.
RequestedIdx == {i \in 1..Len(archive.members) : Requested(archive.members[i], wantNames)}
FailingIdx == {i \in RequestedIdx : FailureOf(archive.members[i]) # NoError}

Ended == pc \in {"done", "failed"}

\* ------------------------------------------------------------------ claims

C2_FirstMatchWins ==
    (returned /\ Intact(archive)) =>
        \A i \in RequestedIdx :
            LET b == archive.members[i].base
                first == CHOOSE j \in RequestedIdx :
                            /\ archive.members[j].base = b
                            /\ \A h \in RequestedIdx :
                                  archive.members[h].base = b => j <= h
            IN  b \in DOMAIN result /\ result[b] = Utf8ToString(archive.members[first].content)

\* Claim C3 read against the archive descriptor, for archives whose directory
\* is intact: the error is that of the first requested member that cannot be
\* extracted, and a call that fails has such a member.
C3_OnIntactArchives ==
    (Ended /\ Intact(archive)) =>
        /\ (\E i \in RequestedIdx : BadMember(archive.members[i])) =>
              /\ pc = "failed"
              /\ ~returned
              /\ result = EmptyObject
              /\ err = FailureOf(archive.members[
                         CHOOSE i \in FailingIdx : \A j \in FailingIdx : i <= j])
              /\ err.kind \in {LocalHeaderBroken.kind, UnsupportedMethod(0).kind,
                               InflateFailed.kind}
        /\ pc = "failed" => FailingIdx # {}

\* C3: if a selected entry has a method other than 0 and 8 or a local header
\* whose first four bytes are not 50 4b 03 04, the call ends in an error and
\* returns no mapping, whatever was extracted before; the error is that of
\* the first selected entry that cannot be extracted; and a call fails during
\* extraction only because of a selected entry, never an unselected one.
C3_AllOrNothing ==
    /\ (Ended /\ pick # <<>>
        /\ \E i \in 1..Len(pick) :
              \/ pick[i].method \notin {0, 8}
              \/ ReadSync(file, 4, pick[i].localHdrOff) # <<80, 75, 3, 4>>)
       => (pc = "failed" /\ ~returned /\ result = EmptyObject /\ err # NoError)
    /\ C3_OnIntactArchives

\* C3 witness: an unsupported method ended the call after an earlier selected
\* entry had been extracted into out; nothing was returned.
C3_Witness ==
    /\ pc = "failed"
    /\ Intact(archive)
    /\ err = UnsupportedMethod(12)
    /\ k >= 1
    /\ DOMAIN out # {}
    /\ ~returned

\* C3 witness of the second half: a call returned although the archive holds
\* an entry with a bad method that was not requested.
C3_WitnessUnselected ==
    /\ returned
    /\ Intact(archive)
    /\ \E i \in 1..Len(archive.members) :
          BadMember(archive.members[i]) /\ i \notin RequestedIdx
    /\ DOMAIN result # {}

CentralDirectoryCorrupt == [kind |-> "ZIP: central directory corrupt", code |-> 0]

\* The walk stopped on a position that has room for a record and no signature.
WalkHitMismatch == p + CenFixedLen <= Len(cdBuf) /\ ~UInt32LEIs(cdBuf, p, CEN_SIG)

\* C4: a signature mismatch met while walking the central directory aborts the
\* call with a CentralDirectoryCorrupt error and no mapping is returned.
C4_CorruptCentralDirectoryFatal ==
    (pc \in {"extracting", "done", "failed"} /\ WalkHitMismatch) =>
        /\ pc = "failed"
        /\ err = CentralDirectoryCorrupt
        /\ ~returned

\* C5: when readFromZip has ended, by return or by error, the descriptor it
\* opened is closed.
C5_HandleReleased == Ended => ~fdOpen

\* The bytes 50 4b 05 06 lie at offset o of the file.
FileHasEocdSigAt(f, o) ==
    /\ ByteAt(f, o) = 80
    /\ ByteAt(f, o + 1) = 75
    /\ ByteAt(f, o + 2) = 5
    /\ ByteAt(f, o + 3) = 6

\* C6: the EOCD offset is the greatest offset o of the file with
\* n - min(n, 65557) <= o <= n - 22 that holds the signature; when there is
\* none (as in every file shorter than 22 bytes) the call fails with the
\* EOCD-not-found error; and the scan reads inside the tail buffer only.
C6_EocdLocation ==
    (pc = "located" \/ (pc = "failed" /\ err = EocdNotFound)) =>
        LET n == FileSize(file)
            cands == {o \in (n - Min(n, 65557))..(n - 22) : FileHasEocdSigAt(file, o)}
        IN  /\ IF cands = {}
               THEN pc = "failed" /\ ~returned
               ELSE pc = "located" /\ eocdOffset = SetMax(cands)
            /\ ScanStart(file) >= 0 => ScanStart(file) + 4 <= ReadTailLen(n)

\* C6 witness: the EOCD record lies at the lowest offset of the window, under
\* a comment of 65535 bytes.
C6_Witness ==
    /\ pc = "located"
    /\ archive.shape = "bigComment"
    /\ eocdOffset = FileSize(file) - 65557
    /\ eocdOffset = TrueEocdOffset(archive)

\* C6 witnesses of the other cases: a signature above n - 22 is passed over, a
\* signature below n - 65557 is not seen, a file shorter than 22 bytes fails.
C6_WitnessAbove ==
    /\ pc = "located"
    /\ archive.shape = "sigInShortComment"
    /\ eocdOffset = FileSize(file) - 26

C6_WitnessBelow ==
    /\ pc = "failed"
    /\ err = EocdNotFound
    /\ archive.shape = "trailing"
    /\ FileHasEocdSigAt(file, FileSize(file) - 65558)

C6_WitnessShort ==
    /\ pc = "failed"
    /\ err = EocdNotFound
    /\ FileSize(file) = 21

RECURSIVE Roles(_, _, _)
Roles(line, i, inQ) ==
    IF i > Len(line) THEN <<>>
    ELSE IF line[i] = 34
         THEN IF inQ /\ i < Len(line) /\ line[i + 1] = 34
              THEN <<"drop", "keep">> \o Roles(line, i + 2, inQ)
              ELSE <<"drop">> \o Roles(line, i + 1, ~inQ)
    ELSE IF line[i] = 44 /\ ~inQ THEN <<"cut">> \o Roles(line, i + 1, inQ)
    ELSE <<"keep">> \o Roles(line, i + 1, inQ)

\* The kept characters of line from position lo to position hi.
RECURSIVE KeptBetween(_, _, _, _)
KeptBetween(line, roles, lo, hi) ==
    IF lo > hi THEN <<>>
    ELSE (IF roles[lo] = "keep" THEN <<line[lo]>> ELSE <<>>)
         \o KeptBetween(line, roles, lo + 1, hi)

\* The fields the description gives: the kept characters between two cuts.
FieldsByRoles(line) ==
    LET roles == Roles(line, 1, FALSE)
        cuts == {i \in 1..Len(line) : roles[i] = "cut"}
        bounds == cuts \cup {0, Len(line) + 1}
        NextBound(b) == CHOOSE c \in bounds : c > b /\ \A d \in bounds : d > b => c <= d
        lowers == bounds \ {Len(line) + 1}
        Nth(n) == CHOOSE b \in lowers : Cardinality({c \in lowers : c < b}) = n - 1
    IN  [n \in 1..Cardinality(lowers) |->
            KeptBetween(line, roles, Nth(n) + 1, NextBound(Nth(n)) - 1)]

\* C8: splitCsvLine cuts the line at exactly the commas outside quotes; a
\* quote toggles the inside-quotes flag and is removed, except that a quote
\* directly followed by a quote while inside quotes gives one literal quote
\* and does not toggle; every other character is kept; the last field is
\* always emitted; a,"b,c",d gives [a, b,c, d] and a,"b""c",d gives [a, b"c, d].
C8_QuotedFieldSplitting ==
    csvPc = "split" =>
        /\ splitOut = FieldsByRoles(csvIn)
        /\ Len(splitOut) >= 1
        /\ csvIn = QuotedExample => splitOut = <<<<97>>, <<98, 44, 99>>, <<100>>>>
        /\ csvIn = EscapedExample => splitOut = <<<<97>>, <<98, 34, 99>>, <<100>>>>

\* C8 witness: a line with a doubled quote and a comma inside quotes, and a
\* comma outside them, has been split.
C8_Witness ==
    /\ csvPc = "split"
    /\ csvIn = EscapedExample
    /\ splitOut = <<<<97>>, <<98, 34, 99>>, <<100>>>>

C8_WitnessInner ==
    /\ csvPc = "split"
    /\ csvIn = <<34, 44, 34, 44, 97>>
    /\ splitOut = <<<<44>>, <<97>>>>

\* The lines parseCsv works on, and the data lines it does not skip.
DataLinesOf(text) == SubSeq(CsvLines(text), 2, Len(CsvLines(text)))
KeptLinesOf(text) == SelectSeq(DataLinesOf(text), LAMBDA l : splitCsvLine(l) # <<<<>>>>)

Distinct(seq) == \A i, j \in 1..Len(seq) : i # j => seq[i] # seq[j]

\* C9: for a header of distinct names h1..hk, every record has exactly the
\* keys h1..hk in header order, the value of hj being the j-th field of the
\* data line, or the empty string when the line has fewer than j fields.
C9_LenientRowSizing ==
    (csvPc = "parsed" /\ Len(CsvLines(csvIn)) > 0) =>
        LET header == splitCsvLine(CsvLines(csvIn)[1])
            kept == KeptLinesOf(csvIn)
        IN  Distinct(header) =>
                /\ Len(parseOut) = Len(kept)
                /\ \A r \in 1..Len(parseOut) :
                    LET cols == splitCsvLine(kept[r])
                    IN  /\ Len(parseOut[r]) = Len(header)
                        /\ \A j \in 1..Len(header) :
                            /\ parseOut[r][j][1] = header[j]
                            /\ parseOut[r][j][2] = IF j <= Len(cols) THEN cols[j] ELSE <<>>

\* The non-empty lines of t by position: a line runs from the start of the
\* text or from behind a "\n" up to the next "\n" or the end of the text, less
\* one "\r" in front of that "\n".
LinesByPosition(t) ==
    LET lfs == {i \in 1..Len(t) : t[i] = 10}
        starts == {1} \cup {i + 1 : i \in lfs}
        Stop(s) == IF \E i \in lfs : i >= s
                   THEN CHOOSE i \in lfs : i >= s /\ \A h \in lfs : h >= s => i <= h
                   ELSE Len(t) + 1
        End(s) == IF Stop(s) <= Len(t) /\ Stop(s) - 1 >= s /\ t[Stop(s) - 1] = 13
                  THEN Stop(s) - 2 ELSE Stop(s) - 1
        full == {s \in starts : End(s) >= s}
        Nth(n) == CHOOSE s \in full : Cardinality({c \in full : c < s}) = n - 1
    IN  [n \in 1..Cardinality(full) |-> SubSeq(t, Nth(n), End(Nth(n)))]

\* C10 (as stated): parseCsv returns exactly one record for each non-empty
\* line after the header line.
C10_OneRecordPerLine ==
    csvPc = "parsed" =>
        LET lines == LinesByPosition(ReplaceFirstBom(csvIn))
        IN  Len(parseOut) = IF Len(lines) = 0 THEN 0 ELSE Len(lines) - 1

\* C10 (amended): parseCsv returns exactly one record for each non-empty line
\* after the header line that does not split into the single empty field,
\* in line order; such a line (for instance "") is the only kind skipped.
C10_OneRecordPerKeptLine ==
    csvPc = "parsed" =>
        LET lines == LinesByPosition(ReplaceFirstBom(csvIn))
            data == SubSeq(lines, 2, Len(lines))
            kept == SelectSeq(data, LAMBDA l : FieldsByRoles(l) # <<<<>>>>)
        IN  /\ Len(parseOut) = Len(kept)
            /\ \A r \in 1..Len(kept) :
                  parseOut[r] = MakeRow(FieldsByRoles(lines[1]), FieldsByRoles(kept[r]),
                                        Len(FieldsByRoles(lines[1])))

\* C10 witness: of three lines after the header (one of them blank) the line
\* "" was skipped and the other gave the one record.
C10_Witness ==
    /\ csvPc = "parsed"
    /\ csvIn = <<97>> \o <<10, 10>> \o <<34, 34>> \o <<10, 10>> \o <<120>>
    /\ parseOut = <<<<<<<<97>>, <<120>>>>>>>>

\* The record parseCsv returned has exactly the header's columns, each with
\* the value written for it.
SameRecord(row, header, values) ==
    /\ Len(row) = Len(header)
    /\ \A j \in 1..Len(header) :
          \E i \in 1..Len(row) : row[i] = <<header[j], values[j]>>

\* C11: for a header of distinct column names and records over it whose names
\* and values hold no comma, double quote or line break, parseCsv of the
\* comma-joined header line followed by one comma-joined line per record
\* returns the same records, in the same order and field for field, records
\* whose values are empty strings included.
C11_CsvRoundTrip ==
    (csvPc = "parsed" /\ csvHeader # <<>>) =>
        /\ Len(parseOut) = Len(csvRecords)
        /\ \A r \in 1..Len(csvRecords) :
              SameRecord(parseOut[r], csvHeader, csvRecords[r])

\* The records of a text none of whose characters is removed: its non-empty
\* lines, the first as header, the others zipped against it.
ParsedAsIs(text) ==
    LET lines == SelectSeq(SplitLines(text), LAMBDA l : Len(l) > 0)
    IN  IF Len(lines) = 0 THEN <<>>
        ELSE ParseLoop(lines, splitCsvLine(lines[1]), 2, <<>>)

\* C12: parseCsv removes a U+FEFF only when it is the first character of the
\* text: parseCsv(U+FEFF + t) equals parseCsv(t), and a text that does not
\* begin with U+FEFF is parsed with every one of its characters kept, a
\* U+FEFF inside a later field or line included.
C12_ByteOrderMark ==
    csvPc = "parsed" =>
        IF Len(csvIn) > 0 /\ csvIn[1] = BOM
        THEN parseOut = parseCsv(Tail(csvIn))
        ELSE parseOut = ParsedAsIs(csvIn)

====
